---- MODULE Spec2Model ----
(***************************************************************************)
(* The resource-wrapper layer of nyanko_engine (src/graphics/gl_wrapper.rs)*)
(* as a state machine: the Rust handles (Vao, BufferObject,               *)
(* VertexAttribute, ShaderProgram), the part of the graphics context their *)
(* gl:: calls read and write, and the process's fatal (panic) state.       *)
(*                                                                         *)
(* The wrapper checks no result of the context, so the context is modelled *)
(* where its answer does not depend on a check the wrapper lacks: names    *)
(* are always allocated, readable NUL-free sources compile and link, the   *)
(* buffer targets are context-wide binding points.  What the context       *)
(* rejects for a missing binding (an upload with no buffer bound, a        *)
(* uniform set with no program in use) is modelled as the no-op it is.     *)
(* A panic ends the process: no call follows it.                           *)
(***************************************************************************)
EXTENDS Integers, Sequences, FiniteSets, TLC

\* ------------------------------------------------------------ bounds
MaxVaos == 2
MaxBuffers == 2
MaxAttrs == 1
MaxPrograms == 2
MaxHandles == 2
MaxIndex == 0

\* ------------------------------------------------------------ constants
\* mem::size_of::<GLfloat>() and mem::size_of::<GLint>()
SizeOfGLfloat == 4
SizeOfGLint == 4
\* glGetUniformLocation's "not an active uniform" result
NotFound == -1

\* ------------------------------------------------------------ inputs
NoPanic == "none"

Targets == {"ARRAY_BUFFER", "COPY_WRITE_BUFFER"}

\* f32 values in tenths: the triangle of the end-to-end scenario and [3.0]
Triangle == <<-5, -5, 5, -5, 0, 5>>
FloatData == {Triangle, <<30>>}
IntData == {<<7>>}

AttrIndices == 0..MaxIndex
\* (size, type, normalized, stride, pointer) of VertexAttribPointer
Layout2f == [size |-> 2, type |-> "FLOAT", normalized |-> FALSE,
             stride |-> 2 * SizeOfGLfloat, pointer |-> 0]
Layouts == {Layout2f}

Identity == "identity"
Matrices == {Identity}
Zero == "zero"

\* The shader source files on disk.  exists: File::open succeeds; utf8:
\* read_to_string succeeds; nul: the text holds an interior NUL byte;
\* uniforms: the active uniforms the stage contributes to the linked
\* program, in location order.
NoText == [nul |-> FALSE, uniforms |-> <<>>]
Files ==
  [p \in {"pass.vert", "view.vert", "pass.frag", "nul.vert", "binary.frag", "missing.glsl"} |->
    CASE p = "pass.vert" ->
           [exists |-> TRUE, utf8 |-> TRUE,
            text |-> [nul |-> FALSE,
                      uniforms |-> <<[name |-> "transform", type |-> "mat4"]>>]]
      [] p = "view.vert" ->
           [exists |-> TRUE, utf8 |-> TRUE,
            text |-> [nul |-> FALSE,
                      uniforms |-> <<[name |-> "view", type |-> "mat4"],
                                     [name |-> "transform", type |-> "mat4"]>>]]
      [] p = "pass.frag" ->
           [exists |-> TRUE, utf8 |-> TRUE, text |-> NoText]
      [] p = "nul.vert" ->
           [exists |-> TRUE, utf8 |-> TRUE, text |-> [nul |-> TRUE, uniforms |-> <<>>]]
      [] p = "binary.frag" ->
           [exists |-> TRUE, utf8 |-> FALSE, text |-> NoText]
      [] OTHER ->
           [exists |-> FALSE, utf8 |-> FALSE, text |-> NoText]]
\* the paths a caller passes as vertex and as fragment source
VertexPaths == {"pass.vert", "view.vert", "nul.vert", "missing.glsl"}
FragmentPaths == {"pass.frag", "binary.frag", "missing.glsl"}

\* uniform names a caller may pass; NulName holds an interior NUL byte
NulName == "trans\\0form"
Names == {"transform", "view", "bogus", NulName}

\* ------------------------------------------------------------ state
VARIABLES
  vaos,                 \* the Vao handles: <<[id]>>
  buffers,              \* the BufferObject handles: <<[id, target, usage]>>
  attrs,                \* the VertexAttribute handles: <<[index]>>
  programs,             \* the ShaderProgram handles: <<[id, uniforms]>>
  glVertexArrayBinding, \* context: the bound vertex array name, 0 = none
  glBufferBinding,      \* context: target -> bound buffer name, 0 = none
  glCurrentProgram,     \* context: the program in use, 0 = none
  glVertexArrays,       \* context: vertex array name -> index -> attribute state
  glBuffers,            \* context: buffer name -> data store
  glShaders,            \* context: shader name -> shader object
  glPrograms,           \* context: program name -> program object
  fatal,                \* NoPanic, or the message of the panic that ended the process
  lastCall,             \* history: the last wrapper call and what it overwrote
  registered,           \* history: program index -> names create_uniform succeeded for
  slotHistory,          \* history: slot -> last bind/unbind made on it
  e2e                   \* history: progress along the end-to-end scenario, -1 = off it

handles == <<vaos, buffers, attrs, programs>>
context == <<glVertexArrayBinding, glBufferBinding, glCurrentProgram, glVertexArrays,
             glBuffers, glShaders, glPrograms>>
history == <<lastCall, registered, slotHistory, e2e>>
vars == <<handles, context, fatal, history>>

Slots == {"VERTEX_ARRAY", "PROGRAM"} \cup Targets

\* a generic vertex attribute array as the context creates it
NoAttrib == [enabled |-> FALSE, buffer |-> 0,
             layout |-> [size |-> 4, type |-> "FLOAT", normalized |-> FALSE,
                         stride |-> 0, pointer |-> 0]]
NoCall == [op |-> "start", self |-> 0, arg |-> <<>>, old |-> <<>>]

\* The end-to-end scenario of the specification, as wrapper calls.
E2E ==
  << [op |-> "Vao::new", self |-> 0, arg |-> <<>>],
     [op |-> "Vao::bind", self |-> 1, arg |-> <<>>],
     [op |-> "BufferObject::new", self |-> 0, arg |-> <<"ARRAY_BUFFER", "STATIC_DRAW">>],
     [op |-> "BufferObject::bind", self |-> 1, arg |-> <<>>],
     [op |-> "BufferObject::store_f32_data", self |-> 1, arg |-> <<Triangle>>],
     [op |-> "VertexAttribute::new", self |-> 0, arg |-> <<0, Layout2f>>],
     [op |-> "VertexAttribute::enable", self |-> 1, arg |-> <<>>],
     [op |-> "ShaderProgram::new", self |-> 0, arg |-> <<"pass.vert", "pass.frag">>],
     [op |-> "ShaderProgram::create_uniform", self |-> 1, arg |-> <<"transform">>],
     [op |-> "ShaderProgram::set_matrix4fv_uniform", self |-> 1, arg |-> <<"transform", Identity>>],
     [op |-> "ShaderProgram::bind", self |-> 1, arg |-> <<>>] >>

\* Every wrapper call ends here: it is recorded, with what it overwrote, and
\* the scenario monitor advances when the call is the scenario's next one.
Returns(op, self, arg, old) ==
  /\ lastCall' = [op |-> op, self |-> self, arg |-> arg, old |-> old]
  /\ e2e' = IF /\ e2e >= 0
               /\ e2e < Len(E2E)
               /\ E2E[e2e + 1] = [op |-> op, self |-> self, arg |-> arg]
            THEN e2e + 1
            ELSE -1

Init ==
  /\ vaos = <<>>
  /\ buffers = <<>>
  /\ attrs = <<>>
  /\ programs = <<>>
  /\ glVertexArrayBinding = 0
  /\ glBufferBinding = [t \in Targets |-> 0]
  /\ glCurrentProgram = 0
  /\ glVertexArrays = (0 :> [i \in AttrIndices |-> NoAttrib])
  /\ glBuffers = <<>>
  /\ glShaders = <<>>
  /\ glPrograms = <<>>
  /\ fatal = NoPanic
  /\ lastCall = NoCall
  /\ registered = <<>>
  /\ slotHistory = [s \in Slots |-> -1]
  /\ e2e = 0

\* ------------------------------------------------------------ Vao
\* gl::GenVertexArrays(1, &mut id): the next unused vertex array name
glGenVertexArrays == Cardinality(DOMAIN glVertexArrays)

Vao_new ==
  /\ fatal = NoPanic
  /\ LET id == glGenVertexArrays
     IN /\ glVertexArrays' = glVertexArrays @@ (id :> [i \in AttrIndices |-> NoAttrib])
        /\ vaos' = Append(vaos, [id |-> id])
  /\ UNCHANGED <<buffers, attrs, programs, glVertexArrayBinding, glBufferBinding,
                 glCurrentProgram, glBuffers, glShaders, glPrograms, fatal,
                 registered, slotHistory>>
  /\ Returns("Vao::new", 0, <<>>, <<>>)

Vao_bind(i) ==
  /\ fatal = NoPanic
  /\ i \in DOMAIN vaos
  /\ glVertexArrayBinding' = vaos[i].id
  /\ slotHistory' = [slotHistory EXCEPT !["VERTEX_ARRAY"] = i]
  /\ UNCHANGED <<handles, glBufferBinding, glCurrentProgram, glVertexArrays, glBuffers,
                 glShaders, glPrograms, fatal, registered>>
  /\ Returns("Vao::bind", i, <<>>, <<>>)

\* an associated function: callable whether or not any Vao exists
Vao_unbind ==
  /\ fatal = NoPanic
  /\ glVertexArrayBinding' = 0
  /\ slotHistory' = [slotHistory EXCEPT !["VERTEX_ARRAY"] = 0]
  /\ UNCHANGED <<handles, glBufferBinding, glCurrentProgram, glVertexArrays, glBuffers,
                 glShaders, glPrograms, fatal, registered>>
  /\ Returns("Vao::unbind", 0, <<>>, <<>>)

\* ------------------------------------------------------------ BufferObject
\* gl::GenBuffers(1, &mut id): the next unused buffer name
glGenBuffers == Len(glBuffers) + 1

EmptyStore == [size |-> 0, usage |-> "STATIC_DRAW", words |-> <<>>]

BufferObject_new(target, usage) ==
  /\ fatal = NoPanic
  /\ LET id == glGenBuffers
     IN /\ glBuffers' = Append(glBuffers, EmptyStore)
        /\ buffers' = Append(buffers, [id |-> id, target |-> target, usage |-> usage])
  /\ UNCHANGED <<vaos, attrs, programs, glVertexArrayBinding, glBufferBinding,
                 glCurrentProgram, glVertexArrays, glShaders, glPrograms, fatal,
                 registered, slotHistory>>
  /\ Returns("BufferObject::new", 0, <<target, usage>>, <<>>)

BufferObject_bind(i) ==
  /\ fatal = NoPanic
  /\ i \in DOMAIN buffers
  /\ glBufferBinding' = [glBufferBinding EXCEPT ![buffers[i].target] = buffers[i].id]
  /\ slotHistory' = [slotHistory EXCEPT ![buffers[i].target] = i]
  /\ UNCHANGED <<handles, glVertexArrayBinding, glCurrentProgram, glVertexArrays, glBuffers,
                 glShaders, glPrograms, fatal, registered>>
  /\ Returns("BufferObject::bind", i, <<>>, <<>>)

\* a variant that clears the target only when this handle's buffer is bound
BufferObject_unbind_own(i) ==
  /\ fatal = NoPanic
  /\ i \in DOMAIN buffers
  /\ glBufferBinding' = IF glBufferBinding[buffers[i].target] = buffers[i].id
                        THEN [glBufferBinding EXCEPT ![buffers[i].target] = 0]
                        ELSE glBufferBinding
  /\ slotHistory' = [slotHistory EXCEPT ![buffers[i].target] = 0]
  /\ UNCHANGED <<handles, glVertexArrayBinding, glCurrentProgram, glVertexArrays, glBuffers,
                 glShaders, glPrograms, fatal, registered>>
  /\ Returns("BufferObject::unbind", i, <<>>, <<glBufferBinding[buffers[i].target]>>)

BufferObject_unbind(i) ==
  /\ fatal = NoPanic
  /\ i \in DOMAIN buffers
  /\ glBufferBinding' = [glBufferBinding EXCEPT ![buffers[i].target] = 0]
  /\ slotHistory' = [slotHistory EXCEPT ![buffers[i].target] = 0]
  /\ UNCHANGED <<handles, glVertexArrayBinding, glCurrentProgram, glVertexArrays, glBuffers,
                 glShaders, glPrograms, fatal, registered>>
  /\ Returns("BufferObject::unbind", i, <<>>, <<glBufferBinding[buffers[i].target]>>)

\* a slice as the 4-byte words the context reads through data.as_ptr()
Words(ty, data) == [k \in 1..Len(data) |-> [ty |-> ty, v |-> data[k]]]

\* gl::BufferData(target, size, data, usage): a new data store of `size` bytes
\* for the buffer bound to `target`, filled from `data`.  With nothing bound
\* there the context rejects the call (INVALID_OPERATION, an error flag the
\* wrapper never queries) and no store changes.
glBufferData(target, size, words, usage) ==
  LET b == glBufferBinding[target]
  IN IF b = 0
     THEN glBuffers
     ELSE [glBuffers EXCEPT ![b] = [size |-> size, usage |-> usage,
                                    words |-> SubSeq(words, 1, size \div 4)]]

\* what a store overwrites: the size of the store bound to the target, or -1
Overwritten(target) ==
  IF glBufferBinding[target] = 0 THEN -1 ELSE glBuffers[glBufferBinding[target]].size

\* the size argument without the element size
f32_size_in_elements(data) == Len(data)

\* (data.len() * mem::size_of::<GLfloat>()) as GLsizeiptr
f32_size(data) == Len(data) * SizeOfGLfloat

\* (data.len() * mem::size_of::<GLint>()) as GLsizeiptr
i32_size(data) == Len(data) * SizeOfGLint

\* a variant that always passes STATIC_DRAW
upload_usage_static(self) == "STATIC_DRAW"

\* the usage argument of an upload: self.usage
upload_usage(self) == self.usage

\* a variant that binds the handle's own buffer before uploading
store_f32_data_binding_self(i, data) ==
  /\ fatal = NoPanic
  /\ i \in DOMAIN buffers
  /\ glBufferBinding' = [glBufferBinding EXCEPT ![buffers[i].target] = buffers[i].id]
  /\ glBuffers' = [glBuffers EXCEPT ![buffers[i].id] =
                     [size |-> f32_size(data), usage |-> upload_usage(buffers[i]),
                      words |-> Words("f32", data)]]
  /\ UNCHANGED <<handles, glVertexArrayBinding, glCurrentProgram, glVertexArrays,
                 glShaders, glPrograms, fatal, registered, slotHistory>>
  /\ Returns("BufferObject::store_f32_data", i, <<data>>, <<Overwritten(buffers[i].target)>>)

store_f32_data(i, data) ==
  /\ fatal = NoPanic
  /\ i \in DOMAIN buffers
  /\ glBuffers' = glBufferData(buffers[i].target, f32_size(data), Words("f32", data),
                               upload_usage(buffers[i]))
  /\ UNCHANGED <<handles, glVertexArrayBinding, glBufferBinding, glCurrentProgram,
                 glVertexArrays, glShaders, glPrograms, fatal, registered, slotHistory>>
  /\ Returns("BufferObject::store_f32_data", i, <<data>>, <<Overwritten(buffers[i].target)>>)

store_i32_data(i, data) ==
  /\ fatal = NoPanic
  /\ i \in DOMAIN buffers
  /\ glBuffers' = glBufferData(buffers[i].target, i32_size(data), Words("i32", data),
                               upload_usage(buffers[i]))
  /\ UNCHANGED <<handles, glVertexArrayBinding, glBufferBinding, glCurrentProgram,
                 glVertexArrays, glShaders, glPrograms, fatal, registered, slotHistory>>
  /\ Returns("BufferObject::store_i32_data", i, <<data>>, <<Overwritten(buffers[i].target)>>)

\* ------------------------------------------------------------ VertexAttribute
\* gl::VertexAttribPointer: the bound vertex array records, for `index`, the
\* layout and the buffer bound to ARRAY_BUFFER at this moment.
VertexAttribute_new(index, layout) ==
  /\ fatal = NoPanic
  /\ glVertexArrays' = [glVertexArrays EXCEPT ![glVertexArrayBinding][index] =
                          [@ EXCEPT !.buffer = glBufferBinding["ARRAY_BUFFER"],
                                    !.layout = layout]]
  /\ attrs' = Append(attrs, [index |-> index])
  /\ UNCHANGED <<vaos, buffers, programs, glVertexArrayBinding, glBufferBinding,
                 glCurrentProgram, glBuffers, glShaders, glPrograms, fatal,
                 registered, slotHistory>>
  /\ Returns("VertexAttribute::new", 0, <<index, layout>>, <<>>)

enable(i) ==
  /\ fatal = NoPanic
  /\ i \in DOMAIN attrs
  /\ glVertexArrays' = [glVertexArrays EXCEPT
                          ![glVertexArrayBinding][attrs[i].index].enabled = TRUE]
  /\ UNCHANGED <<handles, glVertexArrayBinding, glBufferBinding, glCurrentProgram,
                 glBuffers, glShaders, glPrograms, fatal, registered, slotHistory>>
  /\ Returns("VertexAttribute::enable", i, <<>>, <<>>)

disable(i) ==
  /\ fatal = NoPanic
  /\ i \in DOMAIN attrs
  /\ glVertexArrays' = [glVertexArrays EXCEPT
                          ![glVertexArrayBinding][attrs[i].index].enabled = FALSE]
  /\ UNCHANGED <<handles, glVertexArrayBinding, glBufferBinding, glCurrentProgram,
                 glBuffers, glShaders, glPrograms, fatal, registered, slotHistory>>
  /\ Returns("VertexAttribute::disable", i, <<>>, <<>>)

\* ------------------------------------------------------------ ShaderProgram
\* File::open(path) or panic "Failed to open"; read_to_string or panic
\* "Failed to read shader"; the text
load_shader_source(path) ==
  IF ~Files[path].exists
  THEN [panic |-> "Failed to open", source |-> NoText]
  ELSE IF ~Files[path].utf8
       THEN [panic |-> "Failed to read shader", source |-> NoText]
       ELSE [panic |-> NoPanic, source |-> Files[path].text]

\* shader and program objects share one name space
glNextObject(shaders, progs) == Cardinality(DOMAIN shaders) + Cardinality(DOMAIN progs) + 1

\* gl::CreateShader; CString::new(source).unwrap(), which panics on an
\* interior NUL; gl::ShaderSource; gl::CompileShader
compile_shader(shaders, source, shader_type) ==
  LET shader == glNextObject(shaders, glPrograms)
  IN IF source.nul
     THEN [panic |-> "NulError", shader |-> shader,
           shaders |-> shaders @@ (shader :> [type |-> shader_type, compiled |-> FALSE,
                                              deleted |-> FALSE, uniforms |-> <<>>])]
     ELSE [panic |-> NoPanic, shader |-> shader,
           shaders |-> shaders @@ (shader :> [type |-> shader_type, compiled |-> TRUE,
                                              deleted |-> FALSE,
                                              uniforms |-> source.uniforms])]

\* gl::CreateProgram, AttachShader x2, LinkProgram: the program object, its
\* active uniforms at locations 0, 1, ... with every value zero
glLinkProgram(shaders, vertex_shader, fragment_shader) ==
  LET active == shaders[vertex_shader].uniforms \o shaders[fragment_shader].uniforms
  IN [linked |-> TRUE, active |-> active, values |-> [k \in 1..Len(active) |-> Zero]]

\* gl::DeleteShader on an attached shader: flagged, freed with the program
glDeleteShader(shaders, shader) == [shaders EXCEPT ![shader].deleted = TRUE]

\* a variant that compiles the vertex stage before it opens the fragment source
ShaderProgram_new_loading_late(vertex_shader_path, fragment_shader_path) ==
  /\ fatal = NoPanic
  /\ LET vs == load_shader_source(vertex_shader_path)
         cv == compile_shader(glShaders, vs.source, "VERTEX_SHADER")
         fs == load_shader_source(fragment_shader_path)
         cf == compile_shader(cv.shaders, fs.source, "FRAGMENT_SHADER")
         id == glNextObject(cf.shaders, glPrograms)
     IN IF vs.panic # NoPanic
        THEN fatal' = vs.panic /\ UNCHANGED <<programs, glShaders, glPrograms, registered>>
        ELSE IF cv.panic # NoPanic \/ fs.panic # NoPanic
        THEN /\ fatal' = IF cv.panic # NoPanic THEN cv.panic ELSE fs.panic
             /\ glShaders' = cv.shaders
             /\ UNCHANGED <<programs, glPrograms, registered>>
        ELSE IF cf.panic # NoPanic
        THEN /\ fatal' = cf.panic
             /\ glShaders' = cf.shaders
             /\ UNCHANGED <<programs, glPrograms, registered>>
        ELSE /\ glPrograms' = glPrograms @@ (id :> glLinkProgram(cf.shaders, cv.shader, cf.shader))
             /\ glShaders' = glDeleteShader(glDeleteShader(cf.shaders, cv.shader), cf.shader)
             /\ programs' = Append(programs, [id |-> id, uniforms |-> {}])
             /\ registered' = Append(registered, {})
             /\ UNCHANGED fatal
  /\ UNCHANGED <<vaos, buffers, attrs, glVertexArrayBinding, glBufferBinding,
                 glCurrentProgram, glVertexArrays, glBuffers, slotHistory>>
  /\ Returns("ShaderProgram::new", 0, <<vertex_shader_path, fragment_shader_path>>, <<>>)

ShaderProgram_new(vertex_shader_path, fragment_shader_path) ==
  /\ fatal = NoPanic
  /\ LET vs == load_shader_source(vertex_shader_path)
         fs == load_shader_source(fragment_shader_path)
         cv == compile_shader(glShaders, vs.source, "VERTEX_SHADER")
         cf == compile_shader(cv.shaders, fs.source, "FRAGMENT_SHADER")
         id == glNextObject(cf.shaders, glPrograms)
     IN IF vs.panic # NoPanic
        THEN fatal' = vs.panic /\ UNCHANGED <<programs, glShaders, glPrograms, registered>>
        ELSE IF fs.panic # NoPanic
        THEN fatal' = fs.panic /\ UNCHANGED <<programs, glShaders, glPrograms, registered>>
        ELSE IF cv.panic # NoPanic
        THEN /\ fatal' = cv.panic
             /\ glShaders' = cv.shaders
             /\ UNCHANGED <<programs, glPrograms, registered>>
        ELSE IF cf.panic # NoPanic
        THEN /\ fatal' = cf.panic
             /\ glShaders' = cf.shaders
             /\ UNCHANGED <<programs, glPrograms, registered>>
        ELSE /\ glPrograms' = glPrograms @@ (id :> glLinkProgram(cf.shaders, cv.shader, cf.shader))
             /\ glShaders' = glDeleteShader(glDeleteShader(cf.shaders, cv.shader), cf.shader)
             /\ programs' = Append(programs, [id |-> id, uniforms |-> {}])
             /\ registered' = Append(registered, {})
             /\ UNCHANGED fatal
  /\ UNCHANGED <<vaos, buffers, attrs, glVertexArrayBinding, glBufferBinding,
                 glCurrentProgram, glVertexArrays, glBuffers, slotHistory>>
  /\ Returns("ShaderProgram::new", 0, <<vertex_shader_path, fragment_shader_path>>, <<>>)

ShaderProgram_bind(i) ==
  /\ fatal = NoPanic
  /\ i \in DOMAIN programs
  /\ glCurrentProgram' = programs[i].id
  /\ slotHistory' = [slotHistory EXCEPT !["PROGRAM"] = i]
  /\ UNCHANGED <<handles, glVertexArrayBinding, glBufferBinding, glVertexArrays, glBuffers,
                 glShaders, glPrograms, fatal, registered>>
  /\ Returns("ShaderProgram::bind", i, <<>>, <<>>)

\* an associated function: callable whether or not any ShaderProgram exists
ShaderProgram_unbind ==
  /\ fatal = NoPanic
  /\ glCurrentProgram' = 0
  /\ slotHistory' = [slotHistory EXCEPT !["PROGRAM"] = 0]
  /\ UNCHANGED <<handles, glVertexArrayBinding, glBufferBinding, glVertexArrays, glBuffers,
                 glShaders, glPrograms, fatal, registered>>
  /\ Returns("ShaderProgram::unbind", 0, <<>>, <<>>)

\* HashMap<String, GLint> as its set of (key, value) entries
\* a variant that numbers the entries itself instead of keeping `value`
HashMap_insert_renumbering(map, key, value) ==
  {e \in map : e[1] # key} \cup {<<key, Cardinality(map)>>}

HashMap_insert(map, key, value) == {e \in map : e[1] # key} \cup {<<key, value>>}

\* HashMap::get: the values under `key`; none when the key is absent
HashMap_get(map, key) == {e[2] : e \in {x \in map : x[1] = key}}

HashMap_keys(map) == {e[1] : e \in map}

\* gl::GetUniformLocation(program, name): the location of the active uniform
\* `name` of the linked program, or -1
glGetUniformLocation(program, name) ==
  LET active == glPrograms[program].active
      at == {k \in 1..Len(active) : active[k].name = name}
  IN IF at = {} THEN NotFound ELSE (CHOOSE k \in at : TRUE) - 1

\* a variant that caches whatever location comes back, without the test
create_uniform_unchecked(i, name) ==
  /\ fatal = NoPanic
  /\ i \in DOMAIN programs
  /\ IF name = NulName
     THEN fatal' = "NulError" /\ UNCHANGED <<programs, registered>>
     ELSE /\ programs' = [programs EXCEPT ![i].uniforms =
                            HashMap_insert(@, name, glGetUniformLocation(programs[i].id, name))]
          /\ registered' = [registered EXCEPT ![i] = @ \cup {name}]
          /\ UNCHANGED fatal
  /\ UNCHANGED <<vaos, buffers, attrs, context, slotHistory>>
  /\ Returns("ShaderProgram::create_uniform", i, <<name>>,
             <<HashMap_get(programs[i].uniforms, name)>>)

\* a variant that caches the location before testing it
create_uniform_insert_first(i, name) ==
  /\ fatal = NoPanic
  /\ i \in DOMAIN programs
  /\ IF name = NulName
     THEN fatal' = "NulError" /\ UNCHANGED <<programs, registered>>
     ELSE LET location == glGetUniformLocation(programs[i].id, name)
          IN /\ programs' = [programs EXCEPT ![i].uniforms = HashMap_insert(@, name, location)]
             /\ IF location < 0
                THEN fatal' = "Uniform not found in shader program" /\ UNCHANGED registered
                ELSE /\ registered' = [registered EXCEPT ![i] = @ \cup {name}]
                     /\ UNCHANGED fatal
  /\ UNCHANGED <<vaos, buffers, attrs, context, slotHistory>>
  /\ Returns("ShaderProgram::create_uniform", i, <<name>>,
             <<HashMap_get(programs[i].uniforms, name)>>)

create_uniform(i, name) ==
  /\ fatal = NoPanic
  /\ i \in DOMAIN programs
  /\ IF name = NulName
     THEN fatal' = "NulError" /\ UNCHANGED <<programs, registered>>
     ELSE LET location == glGetUniformLocation(programs[i].id, name)
          IN IF location < 0
             THEN /\ fatal' = "Uniform not found in shader program"
                  /\ UNCHANGED <<programs, registered>>
             ELSE /\ programs' = [programs EXCEPT
                                    ![i].uniforms = HashMap_insert(@, name, location)]
                  /\ registered' = [registered EXCEPT ![i] = @ \cup {name}]
                  /\ UNCHANGED fatal
  /\ UNCHANGED <<vaos, buffers, attrs, context, slotHistory>>
  /\ Returns("ShaderProgram::create_uniform", i, <<name>>,
             <<HashMap_get(programs[i].uniforms, name)>>)

\* gl::UniformMatrix4fv(location, 1, FALSE, value) sets the mat4 uniform at
\* `location` of the program in use.  The context rejects the call
\* (INVALID_OPERATION, never queried) and changes nothing when no program is
\* in use, when `location` is not one of its locations or when the uniform
\* there is no mat4.
glUniformMatrix4fv(location, value) ==
  LET p == glCurrentProgram
  IN IF \/ p = 0
        \/ location + 1 \notin DOMAIN glPrograms[p].active
        \/ glPrograms[p].active[location + 1].type # "mat4"
     THEN glPrograms
     ELSE [glPrograms EXCEPT ![p].values[location + 1] = value]

\* a variant that finds a name only while this program is the one in use
uniform_lookup_if_current(i, name) ==
  IF glCurrentProgram = programs[i].id
  THEN HashMap_get(programs[i].uniforms, name)
  ELSE {}

\* a variant that looks the name up in every program's cache
uniform_lookup_any_program(i, name) ==
  UNION {HashMap_get(programs[j].uniforms, name) : j \in DOMAIN programs}

\* self.uniforms.get(name)
uniform_lookup(i, name) == HashMap_get(programs[i].uniforms, name)

set_matrix4fv_uniform(i, name, matrix) ==
  /\ fatal = NoPanic
  /\ i \in DOMAIN programs
  /\ LET found == uniform_lookup(i, name)
     IN IF found = {}
        THEN fatal' = "Uniform not found" /\ UNCHANGED glPrograms
        ELSE /\ glPrograms' = glUniformMatrix4fv(CHOOSE l \in found : TRUE, matrix)
             /\ UNCHANGED fatal
  /\ UNCHANGED <<handles, glVertexArrayBinding, glBufferBinding, glCurrentProgram,
                 glVertexArrays, glBuffers, glShaders, registered, slotHistory>>
  /\ Returns("ShaderProgram::set_matrix4fv_uniform", i, <<name, matrix>>, <<>>)

\* ------------------------------------------------------------ specifications
Handles == Len(vaos) + Len(buffers) + Len(attrs) + Len(programs)

\* the constructors, each while its kind has room, with arguments from the
\* given sets (a buffer kind is a <<target, usage>> pair)
VaoCreate == Len(vaos) < MaxVaos /\ Vao_new

BufferCreate(kinds) ==
  Len(buffers) < MaxBuffers /\ \E k \in kinds : BufferObject_new(k[1], k[2])

AttributeCreate ==
  Len(attrs) < MaxAttrs /\ \E x \in AttrIndices, l \in Layouts : VertexAttribute_new(x, l)

ProgramCreate(vertex_paths, fragment_paths) ==
  Len(programs) < MaxPrograms
    /\ \E v \in vertex_paths, f \in fragment_paths : ShaderProgram_new(v, f)

\* the calls on existing handles and the associated functions
VaoCalls ==
  \/ \E i \in DOMAIN vaos : Vao_bind(i)
  \/ Vao_unbind

BufferCalls(floats, ints) ==
  \/ \E i \in DOMAIN buffers : BufferObject_bind(i)
  \/ \E i \in DOMAIN buffers : BufferObject_unbind(i)
  \/ \E i \in DOMAIN buffers, d \in floats : store_f32_data(i, d)
  \/ \E i \in DOMAIN buffers, d \in ints : store_i32_data(i, d)

AttributeCalls ==
  \/ \E i \in DOMAIN attrs : enable(i)
  \/ \E i \in DOMAIN attrs : disable(i)

ProgramCalls(names) ==
  \/ \E i \in DOMAIN programs : ShaderProgram_bind(i)
  \/ ShaderProgram_unbind
  \/ \E i \in DOMAIN programs, n \in names : create_uniform(i, n)
  \/ \E i \in DOMAIN programs, n \in names, m \in Matrices : set_matrix4fv_uniform(i, n, m)

\* a caller of the whole layer, holding at most MaxHandles handles
Next ==
  \/ Handles < MaxHandles
       /\ \/ VaoCreate
          \/ BufferCreate({<<"ARRAY_BUFFER", "STATIC_DRAW">>,
                           <<"COPY_WRITE_BUFFER", "DYNAMIC_DRAW">>})
          \/ AttributeCreate
          \/ ProgramCreate({"pass.vert", "missing.glsl"}, {"pass.frag"})
  \/ VaoCalls
  \/ BufferCalls({<<30>>}, IntData)
  \/ AttributeCalls
  \/ ProgramCalls({"transform", "bogus"})

\* a caller of the buffer handles alone
BufferNext == BufferCreate(Targets \X {"STATIC_DRAW"}) \/ BufferCalls(FloatData, IntData)

\* a caller of the shader programs alone
ProgramNext == ProgramCreate(VertexPaths, FragmentPaths) \/ ProgramCalls(Names)

\* how many handles of a kind the end-to-end scenario constructs
Budget(op) == Cardinality({k \in DOMAIN E2E : E2E[k].op = op})

\* one call of the end-to-end scenario, with the scenario's arguments
Perform(c) ==
  \/ c.op = "Vao::new" /\ Len(vaos) < Budget(c.op) /\ Vao_new
  \/ c.op = "Vao::bind" /\ Vao_bind(c.self)
  \/ c.op = "BufferObject::new" /\ Len(buffers) < Budget(c.op)
       /\ BufferObject_new(c.arg[1], c.arg[2])
  \/ c.op = "BufferObject::bind" /\ BufferObject_bind(c.self)
  \/ c.op = "BufferObject::store_f32_data" /\ store_f32_data(c.self, c.arg[1])
  \/ c.op = "VertexAttribute::new" /\ Len(attrs) < Budget(c.op)
       /\ VertexAttribute_new(c.arg[1], c.arg[2])
  \/ c.op = "VertexAttribute::enable" /\ enable(c.self)
  \/ c.op = "ShaderProgram::new" /\ Len(programs) < Budget(c.op)
       /\ ShaderProgram_new(c.arg[1], c.arg[2])
  \/ c.op = "ShaderProgram::create_uniform" /\ create_uniform(c.self, c.arg[1])
  \/ c.op = "ShaderProgram::set_matrix4fv_uniform"
       /\ set_matrix4fv_uniform(c.self, c.arg[1], c.arg[2])
  \/ c.op = "ShaderProgram::bind" /\ ShaderProgram_bind(c.self)

\* a caller who makes the calls of the end-to-end scenario, in any order
E2ENext == \E k \in DOMAIN E2E : Perform(E2E[k])

Spec == Init /\ [][Next]_vars

E2ESpec == Init /\ [][E2ENext]_vars

BufferSpec == Init /\ [][BufferNext]_vars

ProgramSpec == Init /\ [][ProgramNext]_vars

\* ------------------------------------------------------------ claims
\* helpers for reading the recorded call
IsCall(c, op) == c.op = op
IsStore(c) == c.op \in {"BufferObject::store_f32_data", "BufferObject::store_i32_data"}
StoreType(c) == IF c.op = "BufferObject::store_f32_data" THEN "f32" ELSE "i32"
Unreadable(path) == ~Files[path].exists \/ ~Files[path].utf8

\* C1: a set_matrix4fv_uniform(n, m) on a program for which no create_uniform(n)
\* has succeeded panics and changes nothing in the graphics context, whatever
\* the other programs have registered.
C1_UnregisteredUniformPanics ==
  [][(/\ IsCall(lastCall', "ShaderProgram::set_matrix4fv_uniform")
      /\ lastCall'.arg[1] \notin registered[lastCall'.self])
     => /\ fatal' = "Uniform not found"
        /\ UNCHANGED context]_vars

\* C1 witness: the call panicked for a name another program has registered
C1_Witness ==
  /\ fatal = "Uniform not found"
  /\ IsCall(lastCall, "ShaderProgram::set_matrix4fv_uniform")
  /\ lastCall.arg[1] \notin registered[lastCall.self]
  /\ \E j \in DOMAIN programs : j # lastCall.self /\ lastCall.arg[1] \in registered[j]

\* C2: a create_uniform(name) whose name has no location in the linked
\* program panics and leaves every uniform cache as it was.
C2_UnknownUniformPanics ==
  [][(/\ IsCall(lastCall', "ShaderProgram::create_uniform")
      /\ glGetUniformLocation(programs[lastCall'.self].id, lastCall'.arg[1]) < 0)
     => /\ fatal' # NoPanic
        /\ programs' = programs]_vars

\* C2 witness: the call panicked on a program whose cache already held an entry
C2_Witness ==
  /\ fatal = "Uniform not found in shader program"
  /\ IsCall(lastCall, "ShaderProgram::create_uniform")
  /\ programs[lastCall.self].uniforms # {}
  /\ lastCall.arg[1] \notin HashMap_keys(programs[lastCall.self].uniforms)

\* C3: a create_uniform(x) for an active uniform x leaves exactly one entry
\* for x, at the location the program resolves; repeated for a name already
\* registered it succeeds and leaves the cache as the first call left it.
C3_CreateUniformIdempotent ==
  [][(/\ IsCall(lastCall', "ShaderProgram::create_uniform")
      /\ glGetUniformLocation(programs[lastCall'.self].id, lastCall'.arg[1]) >= 0)
     => LET i == lastCall'.self
            x == lastCall'.arg[1]
        IN /\ fatal' = NoPanic
           /\ {e \in programs'[i].uniforms : e[1] = x}
                = {<<x, glGetUniformLocation(programs[i].id, x)>>}
           /\ x \in registered[i] => programs' = programs]_vars

\* C3 witness: a second registration of a name returned
C3_Witness ==
  /\ fatal = NoPanic
  /\ IsCall(lastCall, "ShaderProgram::create_uniform")
  /\ lastCall.old[1] # {}
  /\ Cardinality(programs[lastCall.self].uniforms) = 2

\* C4: a store on a handle whose buffer is bound to the handle's target makes
\* that buffer's store exactly the data, count x 4 bytes long, whatever it
\* held before.
C4_StoreReplacesContents ==
  [][(/\ IsStore(lastCall')
      /\ glBufferBinding[buffers[lastCall'.self].target] = buffers[lastCall'.self].id)
     => LET store == glBuffers'[buffers[lastCall'.self].id]
            data == lastCall'.arg[1]
        IN /\ store.size = 4 * Len(data)
           /\ store.words = Words(StoreType(lastCall'), data)]_vars

\* C4 witness: [3.0] was stored over the 24 bytes of the triangle
C4_Witness ==
  /\ IsCall(lastCall, "BufferObject::store_f32_data")
  /\ glBufferBinding[buffers[lastCall.self].target] = buffers[lastCall.self].id
  /\ lastCall.arg[1] = <<30>>
  /\ lastCall.old = <<24>>
  /\ glBuffers[buffers[lastCall.self].id].size = 4
  /\ glBuffers[buffers[lastCall.self].id].words = <<[ty |-> "f32", v |-> 30]>>

\* C5: a ShaderProgram::new with an unreadable vertex or fragment path panics
\* with no shader object and no program object created and no handle made.
C5_UnreadableSourcePanicsFirst ==
  [][(/\ IsCall(lastCall', "ShaderProgram::new")
      /\ Unreadable(lastCall'.arg[1]) \/ Unreadable(lastCall'.arg[2]))
     => /\ fatal' \in {"Failed to open", "Failed to read shader"}
        /\ UNCHANGED <<glShaders, glPrograms, programs>>]_vars

\* C5 witness: the vertex source was read and the fragment path was missing
C5_Witness ==
  /\ IsCall(lastCall, "ShaderProgram::new")
  /\ ~Unreadable(lastCall.arg[1])
  /\ ~Files[lastCall.arg[2]].exists
  /\ fatal = "Failed to open"
  /\ programs # <<>>

\* the instance a slot's history names, as the name that slot should hold
SlotExpected(s) ==
  LET h == slotHistory[s]
  IN IF h <= 0 THEN 0
     ELSE IF s = "VERTEX_ARRAY" THEN vaos[h].id
     ELSE IF s = "PROGRAM" THEN programs[h].id
     ELSE buffers[h].id

SlotValue(s) ==
  IF s = "VERTEX_ARRAY" THEN glVertexArrayBinding
  ELSE IF s = "PROGRAM" THEN glCurrentProgram
  ELSE glBufferBinding[s]

C7_ScenarioCompletes == e2e >= 0 => fatal = NoPanic

\* C7 witness: the scenario ran to its end; the matrix, set before the program
\* was in use, did not reach the uniform
C7_Witness ==
  /\ e2e = Len(E2E)
  /\ fatal = NoPanic
  /\ glCurrentProgram = programs[1].id
  /\ programs[1].uniforms = {<<"transform", 0>>}
  /\ glPrograms[programs[1].id].values = <<Zero>>
  /\ glBuffers[buffers[1].id].words = Words("f32", Triangle)

\* the handles that exist keep their fields, except the cache of `except`
HandlesKept(except) ==
  /\ \A i \in DOMAIN vaos : vaos'[i] = vaos[i]
  /\ \A i \in DOMAIN buffers : buffers'[i] = buffers[i]
  /\ \A i \in DOMAIN attrs : attrs'[i] = attrs[i]
  /\ \A i \in DOMAIN programs : /\ programs'[i].id = programs[i].id
                                /\ i # except => programs'[i] = programs[i]

\* C8: only a create_uniform that returns changes a handle's fields, and then
\* only its own cache; a store passes the handle's own target and usage.
C8_OnlyCreateUniformMutates ==
  [][/\ IF IsCall(lastCall', "ShaderProgram::create_uniform") /\ fatal' = NoPanic
        THEN HandlesKept(lastCall'.self)
        ELSE HandlesKept(0)
     /\ IsStore(lastCall')
        => LET self == buffers[lastCall'.self]
               b == glBufferBinding[self.target]
           IN /\ \A k \in DOMAIN glBuffers : k # b => glBuffers'[k] = glBuffers[k]
              /\ b # 0 => glBuffers'[b].usage = self.usage]_vars

\* C8 witness: a DYNAMIC_DRAW handle uploaded and a cache beside it is intact
C8_Witness ==
  /\ IsStore(lastCall)
  /\ buffers[lastCall.self].usage = "DYNAMIC_DRAW"
  /\ glBufferBinding[buffers[lastCall.self].target] = buffers[lastCall.self].id
  /\ glBuffers[buffers[lastCall.self].id].usage = "DYNAMIC_DRAW"
  /\ \E i \in DOMAIN programs : programs[i].uniforms # {}

\* C9: a store writes the buffer bound to the handle's target, whichever
\* handle it is called on, and panics never; with nothing bound there, no
\* store changes.
C9_StoreWritesBoundBuffer ==
  [][IsStore(lastCall')
     => LET self == buffers[lastCall'.self]
            b == glBufferBinding[self.target]
            data == lastCall'.arg[1]
        IN /\ fatal' = NoPanic
           /\ b = 0 => glBuffers' = glBuffers
           /\ b # 0 => /\ glBuffers'[b].words = Words(StoreType(lastCall'), data)
                       /\ \A k \in DOMAIN glBuffers : k # b => glBuffers'[k] = glBuffers[k]]_vars

\* C9 witness: a store on one handle replaced the sibling's store, not its own
C9_Witness ==
  /\ IsCall(lastCall, "BufferObject::store_f32_data")
  /\ LET self == buffers[lastCall.self]
         b == glBufferBinding[self.target]
     IN /\ b # 0
        /\ b # self.id
        /\ lastCall.old = <<0>>
        /\ glBuffers[b].words = Words("f32", lastCall.arg[1])
        /\ glBuffers[self.id].words = Words("i32", <<7>>)

\* C10: a program's cache holds exactly the names create_uniform succeeded
\* for, each at the non-negative location the program resolves; it starts
\* empty and never loses an entry.
C10_CacheIsRegisteredNames ==
  /\ [](\A i \in DOMAIN programs :
          /\ HashMap_keys(programs[i].uniforms) = registered[i]
          /\ \A e \in programs[i].uniforms :
               e[2] >= 0 /\ e[2] = glGetUniformLocation(programs[i].id, e[1]))
  /\ [][/\ \A i \in DOMAIN programs : programs[i].uniforms \subseteq programs'[i].uniforms
        /\ \A i \in DOMAIN programs' \ DOMAIN programs : programs'[i].uniforms = {}]_vars

\* C10 witness: two programs with different caches, one holding two names
C10_Witness ==
  /\ Len(programs) = 2
  /\ programs[1].uniforms = {<<"transform", 0>>}
  /\ programs[2].uniforms = {<<"view", 0>>, <<"transform", 1>>}
  /\ fatal = NoPanic

====
